---------------------------- MODULE Spec2Model ----------------------------
(***************************************************************************)
(* The feed-check engine of rss-sentinel-bot: RSSChecker (scheduler.py),   *)
(* the Database operations it calls (database.py) and the fetch/parse      *)
(* pipeline that feeds it (rss_parser.py).                                 *)
(*                                                                         *)
(* The sweep is one asyncio coroutine.  pc is its position; the other      *)
(* coroutines of the event loop (a further trigger, the clock) run only    *)
(* while the sweep is suspended at an await (pc \in AwaitPoints) or idle.  *)
(* Text that the matcher inspects is a sequence of one-character strings;  *)
(* URLs and feed-level titles are never inspected and stay atomic.         *)
(***************************************************************************)
EXTENDS Integers, Sequences, FiniteSets, TLC

VARIABLES
    is_running,        \* RSSChecker.is_running
    pc,                \* position of the sweep coroutine
    feeds,             \* table feeds: id -> row
    keywords,          \* table keywords, in id order
    sent_items,        \* table sent_items: set of rows
    now,               \* datetime.now() / func.now(), in days
    admin_user_ids,    \* config.admin_user_ids
    fetcher,           \* which fetch collaborator check_feed awaits
    flaky,             \* the feeds whose source can fail to answer
    store_faulty,      \* whether store operations may raise
    clock_runs,        \* whether days pass
    faults,            \* store operations that have raised so far
    sweep_feeds,       \* local `feeds` of check_all_feeds (detached rows)
    global_keywords,   \* local `global_keywords` of check_all_feeds
    fi,                \* index of the feed being checked in sweep_feeds
    all_keywords,      \* local `all_keywords` of check_feed
    entries,           \* feed_data["entries"] of the current check
    ei,                \* index of the entry being checked
    matched_keywords,  \* local `matched_keywords` of check_entry
    ai,                \* index of the recipient being sent to
    attempts,          \* sends made for the current item: <<[to, ok]>>
    dropped,           \* a trigger was dropped during the running sweep
    fetched,           \* the current check's fetch succeeded
    updated,           \* the current check's success update was committed
    last_return,       \* the check_feed call that returned last
    last_item,         \* the check_entry call that returned last
    in_progress,       \* calls of check_all_feeds past the guard, not yet ended
    streak,            \* per feed: failed checks in a row
    last_call          \* the Database operation that was called last, directly

vars == <<is_running, pc, feeds, keywords, sent_items, now, admin_user_ids,
          fetcher, flaky, store_faulty, clock_runs, faults,
          sweep_feeds, global_keywords, fi,
          all_keywords, entries, ei, matched_keywords, ai, attempts,
          dropped, fetched, updated, last_return, last_item, in_progress,
          streak, last_call>>

-----------------------------------------------------------------------------
(* Bounds of the model *)

MaxTime == 2
MaxEntries == 2
MaxFaults == 2
MaxErrors == 11
MaxRules == 2

(* Program constants *)

ErrorThreshold == 10
MaxTags == 5
FetchCap == 50
SummaryCap == 500
history_days == 1

FeedIds == {1, 2}
NoFeed == 0
NoTime == -1
None == "None"
NoEntry == [discarded |-> TRUE]

-----------------------------------------------------------------------------
(* Text *)

UpperCase ==
    <<"A", "B", "C", "D", "E", "F", "G", "H", "I", "J", "K", "L", "M",
      "N", "O", "P", "Q", "R", "S", "T", "U", "V", "W", "X", "Y", "Z">>

LowerCase ==
    <<"a", "b", "c", "d", "e", "f", "g", "h", "i", "j", "k", "l", "m",
      "n", "o", "p", "q", "r", "s", "t", "u", "v", "w", "x", "y", "z">>

LowerOf ==
    [c \in {UpperCase[i] : i \in 1..Len(UpperCase)} |->
        LowerCase[CHOOSE i \in 1..Len(UpperCase) : UpperCase[i] = c]]

(* str.lower, one character.                                               *)
Lower(c) == IF c \in DOMAIN LowerOf THEN LowerOf[c] ELSE c

LowerStr(s) == [i \in 1..Len(s) |-> Lower(s[i])]

Contains(sub, text) ==
    \E i \in 0..(Len(text) - Len(sub)) : SubSeq(text, i + 1, i + Len(sub)) = sub

S_release == <<"r", "e", "l", "e", "a", "s", "e">>
S_other == <<"o", "t", "h", "e", "r">>
S_badre == <<"(", "r", "e", "l">>
S_new == <<"n", "e", "w">>
T_release == <<"N", "e", "w", " ", "R", "e", "l", "e", "a", "s", "e", " ", "v", "2">>
T_other == <<"O", "t", "h", "e", "r">>

Get(d, key, default) == IF key \in DOMAIN d THEN d[key] ELSE default


Strip(s) ==
    LET keep == {i \in 1..Len(s) : s[i] # " "} IN
    IF keep = {} THEN <<>>
    ELSE SubSeq(s, CHOOSE i \in keep : \A j \in keep : i <= j,
                   CHOOSE i \in keep : \A j \in keep : i >= j)

(* str.split(sep): the parts between the occurrences of sep, found from   *)
(* the left without overlap.                                               *)
RECURSIVE Split(_, _)
Split(s, sep) ==
    LET hits == {i \in 1..(Len(s) - Len(sep) + 1) :
                    SubSeq(s, i, i + Len(sep) - 1) = sep}
    IN IF hits = {} THEN <<s>>
       ELSE LET i == CHOOSE i \in hits : \A j \in hits : i <= j
            IN <<SubSeq(s, 1, i - 1)>> \o Split(SubSeq(s, i + Len(sep), Len(s)), sep)

Min(a, b) == IF a <= b THEN a ELSE b

RECURSIVE SortedSeq(_)
SortedSeq(S) ==
    IF S = {} THEN <<>>
    ELSE LET m == CHOOSE x \in S : \A y \in S : x <= y
         IN <<m>> \o SortedSeq(S \ {m})

-----------------------------------------------------------------------------
(* database.py: the operations on the three tables, as functions of the   *)
(* table.  A store operation that raises commits nothing.                  *)

get_all_feeds(tbl) ==
    LET ids == SortedSeq(DOMAIN tbl)
    IN [i \in 1..Len(ids) |-> tbl[ids[i]]]

get_active_feeds(tbl) ==
    LET ids == SortedSeq({id \in DOMAIN tbl : tbl[id].is_active = TRUE})
    IN [i \in 1..Len(ids) |-> tbl[ids[i]]]

update_feed_reactivates(tbl, feed_id, kwargs) ==
    IF feed_id \in DOMAIN tbl
    THEN [tbl EXCEPT ![feed_id] =
            [k \in DOMAIN tbl[feed_id] |->
                IF k \in DOMAIN kwargs THEN kwargs[k]
                ELSE IF k = "is_active" THEN TRUE ELSE tbl[feed_id][k]]]
    ELSE tbl

update_feed(tbl, feed_id, kwargs) ==
    IF feed_id \in DOMAIN tbl
    THEN [tbl EXCEPT ![feed_id] =
            [k \in DOMAIN tbl[feed_id] |->
                IF k \in DOMAIN kwargs THEN kwargs[k] ELSE tbl[feed_id][k]]]
    ELSE tbl

increment_error_off_by_one(tbl, feed_id) ==
    IF feed_id \in DOMAIN tbl
    THEN LET n == tbl[feed_id].error_count + 1 IN
         [tbl EXCEPT ![feed_id].error_count = n,
                     ![feed_id].is_active =
                        IF n > ErrorThreshold THEN FALSE ELSE @]
    ELSE tbl

increment_error_every_feed(tbl, feed_id) ==
    [id \in DOMAIN tbl |->
        [tbl[id] EXCEPT !.error_count = Min(@ + 1, MaxErrors)]]

increment_error_twice(tbl, feed_id) ==
    IF feed_id \in DOMAIN tbl
    THEN LET n == tbl[feed_id].error_count + 2 IN
         [tbl EXCEPT ![feed_id].error_count = n,
                     ![feed_id].is_active =
                        IF n >= ErrorThreshold THEN FALSE ELSE @]
    ELSE tbl

increment_error(tbl, feed_id) ==
    IF feed_id \in DOMAIN tbl
    THEN LET n == tbl[feed_id].error_count + 1 IN
         [tbl EXCEPT ![feed_id].error_count = n,
                     ![feed_id].is_active =
                        IF n >= ErrorThreshold THEN FALSE ELSE @]
    ELSE tbl

get_global_keywords(kws) == SelectSeq(kws, LAMBDA k : k.feed_id = NoFeed)

get_feed_keywords_unfiltered(kws, feed_id) == kws

get_feed_keywords(kws, feed_id) == SelectSeq(kws, LAMBDA k : k.feed_id = feed_id)

item_hash(feed_id, url) == <<"sha256", feed_id, ":", url>>

is_sent_never(tbl, h) == FALSE

is_sent_always(tbl, h) == TRUE

is_sent(tbl, h) == \E r \in tbl : r.item_hash = h

mark_sent_never_raises(tbl, feed_id, url) == FALSE

mark_sent_raises(tbl, feed_id, url) == is_sent(tbl, item_hash(feed_id, url))

mark_sent_dropped(tbl, feed_id, title, url, t) == tbl

mark_sent(tbl, feed_id, title, url, t) ==
    tbl \cup {[item_hash |-> item_hash(feed_id, url), feed_id |-> feed_id,
               title |-> title, url |-> url, sent_at |-> t]}

clean_old_sent_items_inclusive(tbl, days, t) ==
    {r \in tbl : ~(r.sent_at <= t - days)}

clean_old_sent_items(tbl, days, t) == {r \in tbl : ~(r.sent_at < t - days)}

(* str.startswith and the slice s[n:].                                     *)
StartsWith(s, prefix) ==
    Len(s) >= Len(prefix) /\ SubSeq(s, 1, Len(prefix)) = prefix

Drop(s, n) == IF n >= Len(s) THEN <<>> ELSE SubSeq(s, n + 1, Len(s))

P_regex == <<"r", "e", "g", "e", "x", ":">>

add_keyword_not_first(keyword, feed_id, keyword_type, id) ==
    LET row(k, t) == [id |-> id, feed_id |-> feed_id, keyword |-> k,
                      keyword_type |-> t, is_active |-> TRUE]
    IN IF Contains(<<" ", "-">>, keyword) THEN row(keyword, "not")
       ELSE IF StartsWith(keyword, P_regex) THEN row(Drop(keyword, 7), "regex")
       ELSE IF StartsWith(keyword, <<"+">>) THEN row(Drop(keyword, 1), "and")
       ELSE IF StartsWith(keyword, <<"|">>) THEN row(Drop(keyword, 1), "or")
       ELSE row(keyword, keyword_type)

(* add_keyword, lines 184-196: the row it inserts; id is the key the store *)
(* assigns.                                                                *)
add_keyword(keyword, feed_id, keyword_type, id) ==
    LET row(k, t) == [id |-> id, feed_id |-> feed_id, keyword |-> k,
                      keyword_type |-> t, is_active |-> TRUE]
    IN IF StartsWith(keyword, P_regex) THEN row(Drop(keyword, 7), "regex")
       ELSE IF StartsWith(keyword, <<"+">>) THEN row(Drop(keyword, 1), "and")
       ELSE IF StartsWith(keyword, <<"|">>) THEN row(Drop(keyword, 1), "or")
       ELSE IF Contains(<<" ", "-">>, keyword) THEN row(keyword, "not")
       ELSE row(keyword, keyword_type)

-----------------------------------------------------------------------------
(* rss_parser.py: fetch_feed and _parse_entry.  A response is what the     *)
(* HTTP GET and feedparser give: a timeout, an HTTP error status, or a     *)
(* document (bozo or not) with its raw entries.                            *)

html_link(raw) ==
    LET ls == Get(raw, "links", <<>>)
        hits == {i \in 1..Len(ls) : ls[i].type = "text/html"}
    IN IF hits = {} THEN ""
       ELSE ls[CHOOSE i \in hits : \A j \in hits : i <= j].href

_parse_entry(raw) ==
    LET title == Strip(Get(raw, "title", <<"U", "n", "t", "i", "t", "l", "e", "d">>))
        hl == html_link(raw)
        link == IF hl # "" THEN hl ELSE Get(raw, "link", "")
        summary == Get(raw, "summary", <<>>)
    IN IF title = <<>> THEN NoEntry
       ELSE [title |-> title, link |-> link,
             summary |-> SubSeq(summary, 1, Min(SummaryCap, Len(summary))),
             published |-> None, image |-> None]

fetch_feed(resp) ==
    IF resp.kind = "timeout"
    THEN [success |-> FALSE, error |-> "Request timeout"]
    ELSE IF resp.kind = "http"
    THEN [success |-> FALSE, error |-> "HTTP error"]
    ELSE IF resp.bozo /\ resp.entries = <<>>
    THEN [success |-> FALSE, error |-> "Invalid RSS feed format"]
    ELSE LET first == SubSeq(resp.entries, 1, Min(FetchCap, Len(resp.entries)))
             items == [i \in 1..Len(first) |-> _parse_entry(first[i])]
         IN [success |-> TRUE,
             title |-> resp.title, description |-> resp.description,
             entries |-> SelectSeq(items, LAMBDA it : it # NoEntry)]

(* A fetch collaborator whose entries carry the key check_entry reads.     *)
with_url(e) ==
    [k \in DOMAIN e \cup {"url"} |-> IF k = "url" THEN e.link ELSE e[k]]

url_fetch(resp) ==
    LET r == fetch_feed(resp) IN
    IF r.success
    THEN [r EXCEPT !.entries = [i \in 1..Len(r.entries) |-> with_url(r.entries[i])]]
    ELSE r


-----------------------------------------------------------------------------
(* scheduler.py: _match_keyword, the rule loop of check_entry and the      *)
(* message of send_notification.                                           *)

Count(s, c) == Cardinality({i \in 1..Len(s) : s[i] = c})

(* re.search(pattern, text, re.IGNORECASE) for the patterns of the model:  *)
(* an unbalanced parenthesis is re.error, a pattern of literal characters  *)
(* is a case-insensitive substring search.                                 *)
re_search(pattern, text) ==
    IF Count(pattern, "(") # Count(pattern, ")") THEN "re.error"
    ELSE IF Contains(LowerStr(pattern), LowerStr(text)) THEN "match"
    ELSE "None"

Bool(b) == IF b THEN "True" ELSE "False"

match_body_case_sensitive(title, summary, kw) ==
    LET text == title \o <<" ">> \o summary IN
    IF kw.keyword_type = "regex"
    THEN Bool(Contains(kw.keyword, text))
    ELSE Bool(Contains(LowerStr(kw.keyword), text))

match_body_title_only(title, summary, kw) ==
    LET text == LowerStr(title)
        sep == IF kw.keyword_type = "and" THEN <<"+">> ELSE <<"|">>
        parts == Split(kw.keyword, sep)
        hit(i) == Contains(LowerStr(Strip(parts[i])), text)
    IN IF kw.keyword_type = "and" THEN Bool(\A i \in 1..Len(parts) : hit(i))
       ELSE IF kw.keyword_type = "or" THEN Bool(\E i \in 1..Len(parts) : hit(i))
       ELSE Bool(Contains(LowerStr(kw.keyword), text))

(* The body of the try of _match_keyword, lines 130-153: "True", "False"   *)
(* or the exception it raises.                                             *)
match_body(title, summary, kw) ==
    LET text == LowerStr(title \o <<" ">> \o summary)
        kw_text == LowerStr(kw.keyword)
    IN IF kw.keyword_type = "regex"
       THEN LET m == re_search(kw.keyword, text) IN
            IF m = "re.error" THEN m ELSE Bool(m # "None")
       ELSE IF kw.keyword_type = "not"
       THEN LET parts == Split(kw.keyword, <<" ", "-">>) IN
            IF Len(parts) = 2
            THEN LET main_kw == LowerStr(Strip(parts[1]))
                     exclude_kw == LowerStr(Strip(parts[2]))
                 IN Bool(Contains(main_kw, text) /\ ~Contains(exclude_kw, text))
            ELSE Bool(Contains(kw_text, text))
       ELSE IF kw.keyword_type = "and"
       THEN LET parts == Split(kw.keyword, <<"+">>) IN
            Bool(\A i \in 1..Len(parts) : Contains(LowerStr(Strip(parts[i])), text))
       ELSE IF kw.keyword_type = "or"
       THEN LET parts == Split(kw.keyword, <<"|">>) IN
            Bool(\E i \in 1..Len(parts) : Contains(LowerStr(Strip(parts[i])), text))
       ELSE Bool(Contains(kw_text, text))

_match_keyword_uncaught(title, summary, kw) == match_body(title, summary, kw)

_match_keyword_error_matches(title, summary, kw) ==
    LET r == match_body(title, summary, kw) IN
    IF r \in {"True", "False"} THEN r ELSE "True"

(* _match_keyword: the except clause, lines 155-157, turns every exception *)
(* into False.                                                             *)
_match_keyword(title, summary, kw) ==
    LET r == match_body(title, summary, kw) IN
    IF r \in {"True", "False"} THEN r ELSE "False"

matched_labels_first_only(entry, kws) ==
    LET title == Get(entry, "title", <<>>)
        summary == Get(entry, "summary", <<>>)
        hits == SelectSeq(kws, LAMBDA kw :
                    kw.is_active /\ _match_keyword(title, summary, kw) = "True")
    IN IF hits = <<>> THEN <<>> ELSE <<hits[1].keyword>>

(* The rule loop of check_entry, lines 106-115.                            *)
matched_labels(entry, kws) ==
    LET title == Get(entry, "title", <<>>)
        summary == Get(entry, "summary", <<>>)
        hits == SelectSeq(kws, LAMBDA kw :
                    kw.is_active /\ _match_keyword(title, summary, kw) = "True")
    IN [i \in 1..Len(hits) |-> hits[i].keyword]

(* An exception of _match_keyword would leave check_entry.                 *)
match_escapes(entry, kws) ==
    \E i \in 1..Len(kws) :
        /\ kws[i].is_active
        /\ _match_keyword(Get(entry, "title", <<>>), Get(entry, "summary", <<>>),
                          kws[i]) \notin {"True", "False"}

hashtag(label) ==
    <<"#">> \o [i \in 1..Len(label) |-> IF label[i] = " " THEN "_" ELSE label[i]]

message(feed, entry, labels) ==
    [title |-> Get(entry, "title", <<"U", "n", "t", "i", "t", "l", "e", "d">>),
     source |-> IF feed.title \in {None, ""} THEN "Unknown" ELSE feed.title,
     summary |-> SubSeq(Get(entry, "summary", <<>>), 1,
                        Min(200, Len(Get(entry, "summary", <<>>)))),
     tags |-> [i \in 1..Min(MaxTags, Len(labels)) |-> hashtag(labels[i])],
     photo |-> Get(entry, "image", None) # None]


-----------------------------------------------------------------------------
(* The environment: what the store holds at start, what a fetch can        *)
(* answer, who is notified.                                                *)

Rule(id, feed_id, keyword, keyword_type, active) ==
    [id |-> id, feed_id |-> feed_id, keyword |-> keyword,
     keyword_type |-> keyword_type, is_active |-> active]

KW_none == <<>>
KW_global == <<Rule(1, NoFeed, S_release, "normal", TRUE)>>
KW_feed1 == <<Rule(1, 1, S_release, "normal", TRUE)>>
KW_mixed ==
    <<Rule(1, NoFeed, S_badre, "regex", TRUE),
      Rule(2, NoFeed, S_other, "normal", FALSE),
      Rule(3, 2, S_release, "normal", TRUE)>>

KW_multi ==
    <<Rule(1, 1, S_new, "normal", TRUE),
      Rule(2, NoFeed, S_release, "normal", TRUE),
      Rule(3, NoFeed, S_other, "normal", FALSE)>>

KW_feed1_two ==
    <<Rule(1, 1, S_release, "normal", TRUE), Rule(2, 1, S_other, "normal", TRUE)>>

Env(f, fl, sf, ck, kws, admins) ==
    [fetcher |-> f, flaky |-> fl, store_faulty |-> sf, clock_runs |-> ck,
     keywords |-> kws, admin_user_ids |-> admins]

(* The program as it is, with sources that fail; the engine fed entries    *)
(* keyed as check_entry reads them, with recipients that fail; the same    *)
(* over a store that raises; and the same over days.                       *)
Environments ==
    { Env("RSSParser", FeedIds, FALSE, FALSE, kws, <<101, 102>>) :
        kws \in {KW_none, KW_global, KW_feed1} } \cup
    { Env("url", {}, FALSE, FALSE, kws, admins) :
        kws \in {KW_global, KW_mixed}, admins \in {<<>>, <<101, 102>>} } \cup
    { Env(f, {}, TRUE, FALSE, KW_global, <<101>>) : f \in {"RSSParser", "url"} } \cup
    { Env("url", {}, FALSE, TRUE, KW_global, <<>>),
      Env("url", {}, FALSE, FALSE, KW_multi, <<>>) }

RawEntries ==
    { [title |-> T_release, link |-> "u1"],
      [title |-> T_release, links |-> <<[type |-> "text/html", href |-> "u1"]>>],
      [title |-> T_other, link |-> "u2"],
      [title |-> T_release],
      [title |-> <<" ">>, link |-> "u2"] }

RECURSIVE SeqsUpTo(_, _)
SeqsUpTo(S, n) ==
    IF n = 0 THEN {<<>>}
    ELSE LET shorter == SeqsUpTo(S, n - 1)
         IN shorter \cup {Append(q, x) : q \in shorter, x \in S}

Responses ==
    { [kind |-> "timeout"], [kind |-> "http"] } \cup
    { [kind |-> "doc", bozo |-> b, title |-> "News", description |-> "",
       entries |-> es] : b \in BOOLEAN, es \in SeqsUpTo(RawEntries, MaxEntries) }

(* The outcomes of a store operation: TRUE it commits, FALSE it raises.    *)
DbOutcomes == IF store_faulty /\ faults < MaxFaults THEN {TRUE, FALSE} ELSE {TRUE}

Raised(ok) == faults' = IF ok THEN faults ELSE faults + 1

AwaitPoints == {"fetch", "send"}

NoReturn ==
    [id |-> NoFeed, fetched |-> FALSE, updated |-> FALSE, outcome |-> "none",
     done |-> 0, total |-> 0]

NoCall == [op |-> "none", feed_id |-> NoFeed, url |-> "", raised |-> FALSE]

NoItem ==
    [feed_id |-> NoFeed, index |-> 0, entry |-> NoEntry, existed |-> FALSE,
     labels |-> <<>>, sends |-> <<>>]

(* The URL of an item, under whichever key the entry carries it.           *)
item_link(entry) ==
    IF "url" \in DOMAIN entry THEN entry.url ELSE Get(entry, "link", "")

HasRecord(tbl, feed_id, url) ==
    \E r \in tbl : r.feed_id = feed_id /\ r.url = url

NewFeed(id) ==
    [id |-> id, title |-> None, description |-> None, is_active |-> TRUE,
     error_count |-> 0, last_fetch |-> NoTime]

InitIn(e) ==
    /\ is_running = FALSE
    /\ pc = "idle"
    /\ feeds = [id \in FeedIds |-> NewFeed(id)]
    /\ sent_items = {}
    /\ now = 0
    /\ fetcher = e.fetcher
    /\ flaky = e.flaky
    /\ store_faulty = e.store_faulty
    /\ clock_runs = e.clock_runs
    /\ keywords = e.keywords
    /\ admin_user_ids = e.admin_user_ids
    /\ faults = 0
    /\ sweep_feeds = <<>>
    /\ global_keywords = <<>>
    /\ fi = 0
    /\ all_keywords = <<>>
    /\ entries = <<>>
    /\ ei = 0
    /\ matched_keywords = <<>>
    /\ ai = 0
    /\ attempts = <<>>
    /\ dropped = FALSE
    /\ fetched = FALSE
    /\ updated = FALSE
    /\ last_return = NoReturn
    /\ last_item = NoItem
    /\ in_progress = 0
    /\ streak = [id \in FeedIds |-> 0]
    /\ last_call = NoCall

Init == \E e \in Environments : InitIn(e)

config == <<keywords, admin_user_ids, fetcher, flaky, store_faulty, clock_runs>>
sweep_locals == <<sweep_feeds, global_keywords, fi>>
feed_locals == <<all_keywords, entries, ei, fetched, updated>>
entry_locals == <<matched_keywords, ai, attempts>>

-----------------------------------------------------------------------------
(* check_all_feeds *)

guard_never == FALSE

(* Lines 33-34: the call returns at once while a sweep is running.         *)
guard == is_running

(* A call of check_all_feeds, by the interval job or by the startup task,  *)
(* up to the first check_feed.                                             *)
Trigger ==
    /\ pc \in {"idle"} \cup AwaitPoints
    /\ IF guard
       THEN /\ dropped' = TRUE
            /\ UNCHANGED <<is_running, pc, feeds, sent_items, now, config, last_call, faults,
                           sweep_locals, feed_locals, entry_locals, last_return,
                           last_item, in_progress, streak>>
       ELSE /\ is_running' = TRUE
            /\ in_progress' = in_progress + 1
            /\ \E ok \in DbOutcomes :
                 LET fs == IF ok THEN get_active_feeds(feeds) ELSE <<>> IN
                 /\ sweep_feeds' = fs
                 /\ global_keywords' = IF ok THEN get_global_keywords(keywords) ELSE <<>>
                 /\ fi' = 1
                 /\ pc' = IF fs = <<>> THEN "finally" ELSE "feed"
                 /\ Raised(ok)
            /\ all_keywords' = <<>>
            /\ entries' = <<>>
            /\ ei' = 0
            /\ fetched' = FALSE
            /\ updated' = FALSE
            /\ matched_keywords' = <<>>
            /\ ai' = 0
            /\ attempts' = <<>>
            /\ last_return' = NoReturn
            /\ last_item' = NoItem
            /\ UNCHANGED <<feeds, sent_items, now, config, last_call, dropped, streak>>

(* check_feed returns, or lets an exception escape, and the loop of        *)
(* check_all_feeds, lines 43-44, goes on or is left.  f, u: the fetch      *)
(* succeeded, the success update was committed; n of total entries were    *)
(* checked.                                                                *)
Return(outcome, f, u, n, total) ==
    /\ last_return' = [id |-> sweep_feeds[fi].id, fetched |-> f, updated |-> u,
                       outcome |-> outcome, done |-> n, total |-> total]
    /\ streak' = [streak EXCEPT ![sweep_feeds[fi].id] =
                     IF outcome \in {"failed", "error", "escaped"}
                     THEN @ + 1
                     ELSE IF outcome = "success" THEN 0 ELSE @]
    /\ fi' = fi + 1
    /\ pc' = IF outcome = "escaped" \/ fi + 1 > Len(sweep_feeds)
             THEN "finally" ELSE "feed"
    /\ all_keywords' = <<>>
    /\ entries' = <<>>
    /\ ei' = 0
    /\ fetched' = FALSE
    /\ updated' = FALSE
    /\ matched_keywords' = <<>>
    /\ ai' = 0
    /\ attempts' = <<>>
    /\ UNCHANGED <<sweep_feeds, global_keywords>>

(* What the sweep that ended leaves behind: how its body ended and how     *)
(* many records its purge removed.                                         *)
Swept(body, removed) == [NoReturn EXCEPT !.outcome = body, !.done = removed]

Finally_purge_before_release ==
    /\ pc = "finally"
    /\ in_progress' = in_progress - 1
    /\ \E ok \in DbOutcomes :
         /\ sent_items' = IF ok
                          THEN clean_old_sent_items(sent_items, history_days, now)
                          ELSE sent_items
         /\ is_running' = IF ok THEN FALSE ELSE is_running
         /\ Raised(ok)
    /\ pc' = "idle"
    /\ sweep_feeds' = <<>>
    /\ global_keywords' = <<>>
    /\ fi' = 0
    /\ dropped' = FALSE
    /\ last_return' = Swept(IF last_return.outcome = "escaped"
                           THEN "swept after exception" ELSE "swept",
                           Cardinality(sent_items \ sent_items'))
    /\ last_item' = NoItem
    /\ UNCHANGED <<feeds, now, config, last_call, feed_locals, entry_locals, streak>>

(* Lines 48-52.                                                            *)
Finally ==
    /\ pc = "finally"
    /\ is_running' = FALSE
    /\ in_progress' = in_progress - 1
    /\ \E ok \in DbOutcomes :
         /\ sent_items' = IF ok
                          THEN clean_old_sent_items(sent_items, history_days, now)
                          ELSE sent_items
         /\ Raised(ok)
    /\ pc' = "idle"
    /\ sweep_feeds' = <<>>
    /\ global_keywords' = <<>>
    /\ fi' = 0
    /\ dropped' = FALSE
    /\ last_return' = Swept(IF last_return.outcome = "escaped"
                           THEN "swept after exception" ELSE "swept",
                           Cardinality(sent_items \ sent_items'))
    /\ last_item' = NoItem
    /\ UNCHANGED <<feeds, now, config, last_call, feed_locals, entry_locals, streak>>

-----------------------------------------------------------------------------
(* check_feed *)

(* Lines 56-66: the rules of the feed; no rule, no fetch.                  *)
CheckFeed ==
    /\ pc = "feed"
    /\ \E ok \in DbOutcomes :
         /\ Raised(ok)
         /\ IF ~ok
            THEN /\ pc' = "except"
                 /\ UNCHANGED <<sweep_locals, feed_locals, entry_locals, last_return,
                                streak>>
            ELSE LET kws == global_keywords \o
                            get_feed_keywords(keywords, sweep_feeds[fi].id) IN
                 IF kws = <<>>
                 THEN Return("skipped", FALSE, FALSE, 0, 0)
                 ELSE /\ all_keywords' = kws
                      /\ pc' = "fetch"
                      /\ UNCHANGED <<sweep_locals, entries, ei, fetched, updated,
                                     entry_locals, last_return, streak>>
    /\ last_item' = NoItem
    /\ UNCHANGED <<is_running, feeds, sent_items, now, config, last_call, dropped, in_progress>>

(* What the awaited fetch can return, by collaborator.                     *)
ParserResults == {fetch_feed(resp) : resp \in Responses}
UrlResults == {url_fetch(resp) : resp \in Responses}

FetchResults == IF fetcher = "RSSParser" THEN ParserResults ELSE UrlResults

(* Lines 68-73: the fetch failed.                                          *)
FetchFailed ==
    /\ pc = "fetch"
    /\ sweep_feeds[fi].id \in flaky
    /\ \E r \in FetchResults :
         /\ ~r.success
         /\ \E ok \in DbOutcomes :
              /\ Raised(ok)
              /\ IF ok
                 THEN /\ feeds' = increment_error(feeds, sweep_feeds[fi].id)
                      /\ Return("failed", FALSE, FALSE, 0, 0)
                 ELSE /\ pc' = "except"
                      /\ UNCHANGED <<feeds, sweep_locals, feed_locals, entry_locals,
                                     last_return, streak>>
    /\ UNCHANGED <<is_running, sent_items, now, config, last_call, dropped, last_item,
                   in_progress>>

(* Lines 68-84: the fetch succeeded; the feed is updated.                  *)
FetchSucceeded ==
    /\ pc = "fetch"
    /\ \E r \in FetchResults :
         /\ r.success
         /\ \E ok \in DbOutcomes :
              /\ Raised(ok)
              /\ IF ok
                 THEN /\ feeds' = update_feed(feeds, sweep_feeds[fi].id,
                                     [title |-> r.title, description |-> r.description,
                                      last_fetch |-> now, error_count |-> 0])
                      /\ IF r.entries = <<>>
                         THEN Return("success", TRUE, TRUE, 0, 0)
                         ELSE /\ entries' = r.entries
                              /\ ei' = 1
                              /\ fetched' = TRUE
                              /\ updated' = TRUE
                              /\ pc' = "entry"
                              /\ streak' = [streak EXCEPT ![sweep_feeds[fi].id] = 0]
                              /\ UNCHANGED <<sweep_locals, all_keywords, entry_locals,
                                             last_return>>
                 ELSE /\ fetched' = TRUE
                      /\ pc' = "except"
                      /\ UNCHANGED <<feeds, sweep_locals, all_keywords, entries, ei,
                                     updated, entry_locals, last_return, streak>>
    /\ UNCHANGED <<is_running, sent_items, now, config, last_call, dropped, last_item,
                   in_progress>>

(* The handler of check_feed, lines 87-89.                                 *)
Except ==
    /\ pc = "except"
    /\ LET n == IF ei = 0 THEN 0 ELSE ei - 1 IN
       \E ok \in DbOutcomes :
         /\ Raised(ok)
         /\ IF ok
            THEN /\ feeds' = increment_error(feeds, sweep_feeds[fi].id)
                 /\ Return("error", fetched, updated, n, Len(entries))
            ELSE /\ UNCHANGED feeds
                 /\ Return("escaped", fetched, updated, n, Len(entries))
    /\ UNCHANGED <<is_running, sent_items, now, config, last_call, dropped, last_item,
                   in_progress>>

-----------------------------------------------------------------------------
(* check_entry and send_notification *)

(* check_entry returns to the loop of check_feed, lines 84-85.             *)
EntryDone(existed, labels, sends) ==
    /\ last_item' = [feed_id |-> sweep_feeds[fi].id, index |-> ei,
                     entry |-> entries[ei], existed |-> existed,
                     labels |-> labels, sends |-> sends]
    /\ IF ei + 1 > Len(entries)
       THEN Return("success", TRUE, TRUE, ei, Len(entries))
       ELSE /\ ei' = ei + 1
            /\ pc' = "entry"
            /\ matched_keywords' = <<>>
            /\ attempts' = <<>>
            /\ ai' = 0
            /\ UNCHANGED <<sweep_locals, all_keywords, entries, fetched, updated,
                           last_return, streak>>

(* Line 95.                                                                *)
entry_url(entry) == Get(entry, "url", "")

fingerprint_url_only(feed_id, url) == <<"sha256", NoFeed, ":", url>>

(* Line 101: the fingerprint check_entry computes for is_sent.             *)
fingerprint(feed_id, url) == <<"sha256", feed_id, ":", url>>

(* Lines 93-119, up to the first send.                                     *)
CheckEntry ==
    /\ pc = "entry"
    /\ LET feed == sweep_feeds[fi]
           entry == entries[ei]
           url == entry_url(entry)
           existed == HasRecord(sent_items, feed.id, item_link(entry))
       IN IF url = ""
          THEN EntryDone(existed, <<>>, <<>>) /\ UNCHANGED faults
          ELSE \E ok \in DbOutcomes :
                 /\ Raised(ok)
                 /\ IF ~ok
                    THEN /\ pc' = "except"
                         /\ UNCHANGED <<sweep_locals, feed_locals, entry_locals,
                                        last_return, last_item, streak>>
                    ELSE IF is_sent(sent_items, fingerprint(feed.id, url))
                    THEN EntryDone(existed, <<>>, <<>>)
                    ELSE IF match_escapes(entry, all_keywords)
                    THEN /\ pc' = "except"
                         /\ UNCHANGED <<sweep_locals, feed_locals, entry_locals,
                                        last_return, last_item, streak>>
                    ELSE LET labels == matched_labels(entry, all_keywords) IN
                         IF labels = <<>>
                         THEN EntryDone(existed, <<>>, <<>>)
                         ELSE /\ matched_keywords' = labels
                              /\ attempts' = <<>>
                              /\ ai' = IF admin_user_ids = <<>> THEN 0 ELSE 1
                              /\ pc' = IF admin_user_ids = <<>> THEN "mark" ELSE "send"
                              /\ UNCHANGED <<sweep_locals, feed_locals, last_return,
                                             last_item, streak>>
    /\ UNCHANGED <<is_running, feeds, sent_items, now, config, last_call, dropped, in_progress>>

SendTo_stops_at_failure ==
    /\ pc = "send"
    /\ \E ok \in BOOLEAN :
         /\ attempts' = Append(attempts,
                           [to |-> admin_user_ids[ai], ok |-> ok,
                            msg |-> message(sweep_feeds[fi], entries[ei],
                                            matched_keywords)])
         /\ IF ~ok \/ ai = Len(admin_user_ids)
            THEN pc' = "mark" /\ ai' = 0
            ELSE pc' = "send" /\ ai' = ai + 1
    /\ UNCHANGED <<is_running, feeds, sent_items, now, config, last_call, faults, dropped,
                   sweep_locals, feed_locals, matched_keywords, last_return,
                   last_item, in_progress, streak>>

(* One pass of the recipient loop, lines 183-200: the send is awaited and  *)
(* its failure is caught.                                                  *)
SendTo ==
    /\ pc = "send"
    /\ \E ok \in BOOLEAN :
         attempts' = Append(attempts,
                        [to |-> admin_user_ids[ai], ok |-> ok,
                         msg |-> message(sweep_feeds[fi], entries[ei],
                                         matched_keywords)])
    /\ IF ai = Len(admin_user_ids)
       THEN pc' = "mark" /\ ai' = 0
       ELSE pc' = "send" /\ ai' = ai + 1
    /\ UNCHANGED <<is_running, feeds, sent_items, now, config, last_call, faults, dropped,
                   sweep_locals, feed_locals, matched_keywords, last_return,
                   last_item, in_progress, streak>>

(* Line 122.                                                               *)
MarkSent ==
    /\ pc = "mark"
    /\ LET feed == sweep_feeds[fi]
           entry == entries[ei]
           url == entry_url(entry)
       IN \E ok \in DbOutcomes :
            /\ Raised(ok)
            /\ IF ok /\ ~mark_sent_raises(sent_items, feed.id, url)
               THEN /\ sent_items' = mark_sent(sent_items, feed.id,
                                               Get(entry, "title", <<>>), url, now)
                    /\ EntryDone(HasRecord(sent_items, feed.id, item_link(entry)),
                                 matched_keywords, attempts)
               ELSE /\ pc' = "except"
                    /\ UNCHANGED <<sent_items, sweep_locals, feed_locals, entry_locals,
                                   last_return, last_item, streak>>
    /\ UNCHANGED <<is_running, feeds, now, config, last_call, dropped, in_progress>>

-----------------------------------------------------------------------------
(* The clock: a day passes, while the sweep is idle or suspended.          *)

Tick ==
    /\ clock_runs
    /\ pc \in {"idle"} \cup AwaitPoints
    /\ now < MaxTime
    /\ now' = now + 1
    /\ UNCHANGED <<is_running, pc, feeds, sent_items, config, last_call, faults, dropped,
                   sweep_locals, feed_locals, entry_locals, last_return, last_item,
                   in_progress, streak>>

Next ==
    \/ Trigger
    \/ CheckFeed
    \/ FetchFailed
    \/ FetchSucceeded
    \/ Except
    \/ CheckEntry
    \/ SendTo
    \/ MarkSent
    \/ Finally
    \/ Tick

Spec == Init /\ [][Next]_vars

-----------------------------------------------------------------------------
(* The Database operations called directly, in any order: what the tables  *)
(* can hold whoever calls, the engine included.                            *)

Urls == {"u1", "u2"}

InitStore == Init /\ clock_runs

engine == <<is_running, pc, config, faults, dropped, sweep_locals, feed_locals,
            entry_locals, last_return, last_item, in_progress, streak>>

Call(op, feed_id, url, raised) ==
    last_call' = [op |-> op, feed_id |-> feed_id, url |-> url, raised |-> raised]

(* db.mark_sent(feed_id, title, url): the unique index on item_hash makes  *)
(* the commit of a second row raise.                                       *)
CallMarkSent ==
    /\ \E feed_id \in FeedIds, url \in Urls :
         LET raises == mark_sent_raises(sent_items, feed_id, url) IN
         /\ sent_items' = IF raises THEN sent_items
                          ELSE mark_sent(sent_items, feed_id, T_release, url, now)
         /\ Call("mark_sent", feed_id, url, raises)
    /\ UNCHANGED <<feeds, now, engine>>

(* db.clean_old_sent_items(config.history_days)                            *)
CallClean ==
    /\ sent_items' = clean_old_sent_items(sent_items, history_days, now)
    /\ Call("clean_old_sent_items", NoFeed, "", FALSE)
    /\ UNCHANGED <<feeds, now, engine>>

NextStore ==
    \/ CallMarkSent
    \/ CallClean
    \/ Tick

SpecStore == InitStore /\ [][NextStore]_vars

(* The success update of check_feed, lines 76-81.                          *)
CallUpdateFeed ==
    /\ \E feed_id \in FeedIds :
         /\ feeds' = update_feed(feeds, feed_id,
                         [title |-> "News", description |-> "",
                          last_fetch |-> now, error_count |-> 0])
         /\ Call("update_feed", feed_id, "", FALSE)
    /\ UNCHANGED <<sent_items, now, engine>>

(* db.increment_error(feed.id), lines 72 and 89.                           *)
CallIncrementError ==
    /\ \E feed_id \in FeedIds :
         /\ feeds[feed_id].error_count < MaxErrors
         /\ feeds' = increment_error(feeds, feed_id)
         /\ Call("increment_error", feed_id, "", FALSE)
    /\ UNCHANGED <<sent_items, now, engine>>

NextFeeds ==
    \/ CallUpdateFeed
    \/ CallIncrementError
    \/ CallClean

SpecFeeds == InitStore /\ [][NextFeeds]_vars


-----------------------------------------------------------------------------
(* handlers.py: the "check now" command, handled by the event loop while   *)
(* the sweep is idle or suspended.                                         *)

Users == {101, 999}

is_admin_mode == Len(admin_user_ids) > 0

is_admin(user_id) ==
    IF ~is_admin_mode THEN TRUE
    ELSE \E i \in DOMAIN admin_user_ids : admin_user_ids[i] = user_id

(* cmd_check, lines 310-321: two answers, and between them a comment.      *)
cmd_check ==
    /\ pc \in {"idle"} \cup AwaitPoints
    /\ \E user_id \in Users :
         last_call' = [op |-> "cmd_check", user_id |-> user_id,
                       replies |-> IF ~is_admin(user_id) THEN <<"denied">>
                                   ELSE <<"checking", "done">>]
    /\ UNCHANGED <<feeds, sent_items, now, engine>>

InitBot ==
    /\ Init
    /\ fetcher = "url"
    /\ ~store_faulty
    /\ ~clock_runs
    /\ keywords = KW_global

(* The engine with sources that answer, a store that commits and no clock, *)
(* where FetchFailed, Except and Tick are never enabled, and the handler.  *)
NextBot ==
    \/ Trigger
    \/ CheckFeed
    \/ FetchSucceeded
    \/ CheckEntry
    \/ SendTo
    \/ MarkSent
    \/ Finally
    \/ cmd_check

SpecBot == InitBot /\ [][NextBot]_vars

-----------------------------------------------------------------------------
(* The engine over days with a store that may raise: one feed with rules   *)
(* of its own, sources that answer and no recipient, where FetchFailed and *)
(* SendTo are never enabled.                                               *)

InitPurge == InitIn(Env("url", {}, TRUE, TRUE, KW_feed1_two, <<>>))

NextPurge ==
    \/ Trigger
    \/ CheckFeed
    \/ FetchSucceeded
    \/ Except
    \/ CheckEntry
    \/ MarkSent
    \/ Finally
    \/ Tick

SpecPurge == InitPurge /\ [][NextPurge]_vars

-----------------------------------------------------------------------------
(* Rule creation: db.add_keyword called with raw inputs on an empty table. *)

RawKeywords ==
    { P_regex \o <<"a", "b">>,
      P_regex \o <<"a", " ", "-", "b">>,
      P_regex,
      <<"+", "a", "+", "b">>,
      <<"+", "a", " ", "-", "b">>,
      <<"|", "a", "|", "b">>,
      <<"|", "+", "a">>,
      <<"a", " ", "-", "b">>,
      <<"a", "b">>,
      <<"a", "-", "b">> }

InitRules == InitIn(Env("url", {}, FALSE, FALSE, KW_none, <<>>))

(* A call of db.add_keyword, made by the event loop while the sweep is     *)
(* idle or suspended.  seen: the check_entry call that had returned last.  *)
AddFrom(raws, ids) ==
    /\ pc \in {"idle"} \cup AwaitPoints
    /\ Len(keywords) < MaxRules
    /\ \E raw \in raws, feed_id \in ids :
         /\ keywords' = Append(keywords,
                           add_keyword(raw, feed_id, "normal", Len(keywords) + 1))
         /\ last_call' = [op |-> "add_keyword", raw |-> raw, feed_id |-> feed_id,
                          seen |-> last_item]
    /\ UNCHANGED <<is_running, pc, feeds, sent_items, now, admin_user_ids, fetcher,
                   flaky, store_faulty, clock_runs, faults, dropped, sweep_locals,
                   feed_locals, entry_locals, last_return, last_item, in_progress,
                   streak>>

AddKeyword == AddFrom(RawKeywords, {NoFeed} \cup FeedIds)

NextRules == AddKeyword

SpecRules == InitRules /\ [][NextRules]_vars

-----------------------------------------------------------------------------
(* The matcher alone: _match_keyword called on a title, a summary and a    *)
(* rule as add_keyword stores it.                                          *)

Titles ==
    { <<"A">>,
      <<"a", " ", "b">>,
      <<"A", " ", "B">>,
      <<"c">>,
      <<"a", " ", "-", "b">>,
      <<"a", " ", "-">>,
      <<"a", " ", "-", "b", " ", "-", "c">>,
      <<"B", " ", "-", "c">> }

Summaries == { <<>>, <<"B">>, <<"c">>, <<"-", "b">> }

RawPatterns ==
    { <<"a">>, <<"A", " ", "b">>, <<"a", "b">>,
      <<"+", "a", "+", "b">>, <<"+", "A", " ", "+", " ", "B">>, <<"+", "a", "+">>,
      <<"+", "a", " ", "b">>,
      <<"|", "a", "|", "c">>, <<"|", " ", "C", " ", "|", "d">>, <<"|", "d">>,
      <<"|", "d", "|">>,
      <<"|", "a", " ", "b">>,
      <<"a", " ", "-", "b">>, <<"A", " ", "-", "B">>, <<"a", " ", "-", " ", "b">>,
      <<"a", " ", "-">>, <<" ", "-", "b">>,
      <<"a", " ", "-", "b", " ", "-", "c">>,
      P_regex \o <<"x", "A">>, P_regex \o <<"x", "(", "a">> }

MatchRules == { add_keyword(raw, NoFeed, "normal", 1) : raw \in RawPatterns }

InitMatch == InitIn(Env("url", {}, FALSE, FALSE, KW_none, <<>>))

CallMatch ==
    /\ pc = "idle"
    /\ \E title \in Titles, summary \in Summaries, kw \in MatchRules :
         last_call' = [op |-> "_match_keyword", title |-> title,
                       summary |-> summary, keyword |-> kw,
                       result |-> _match_keyword(title, summary, kw)]
    /\ UNCHANGED <<is_running, pc, feeds, keywords, sent_items, now, admin_user_ids,
                   fetcher, flaky, store_faulty, clock_runs, faults, dropped,
                   sweep_locals, feed_locals, entry_locals, last_return, last_item,
                   in_progress, streak>>

NextMatch == CallMatch

SpecMatch == InitMatch /\ [][NextMatch]_vars

-----------------------------------------------------------------------------
(* Rules added while the engine runs: the store starts with one rule of    *)
(* feed 1, and rules of feed 1 that match other items are added later.     *)

KW_late == <<Rule(1, 1, S_other, "normal", TRUE)>>

S_new_not_other == S_new \o <<" ", "-">> \o S_other

LateRules == {S_release, S_new_not_other}

InitLate == InitIn(Env("url", {}, FALSE, FALSE, KW_late, <<101>>))

AddLateRule == AddFrom(LateRules, {1})

NextLate ==
    \/ Trigger
    \/ CheckFeed
    \/ FetchSucceeded
    \/ CheckEntry
    \/ SendTo
    \/ MarkSent
    \/ Finally
    \/ AddLateRule

SpecLate == InitLate /\ [][NextLate]_vars

-----------------------------------------------------------------------------
(* Progress of the sweep: the event loop resumes the sweep coroutine       *)
(* whenever it can run.  A store call returns or raises, the fetch is      *)
(* bounded by the timeout of the HTTP session, and a send returns or       *)
(* raises.  The store can raise at every operation; the sources answer.    *)

InitLive == InitIn(Env("url", {}, TRUE, FALSE, KW_feed1, <<101>>))

SweepStep ==
    \/ CheckFeed
    \/ FetchSucceeded
    \/ Except
    \/ CheckEntry
    \/ SendTo
    \/ MarkSent
    \/ Finally

NextLive == Trigger \/ SweepStep

SpecLive == InitLive /\ [][NextLive]_vars /\ WF_vars(SweepStep)

-----------------------------------------------------------------------------
(* Properties *)

Records(tbl, feed_id, url) == {r \in tbl : r.feed_id = feed_id /\ r.url = url}

(* The rules check_feed applies to a feed, line 61.                        *)
rules_of(feed_id) ==
    get_global_keywords(keywords) \o get_feed_keywords(keywords, feed_id)

Failed(sends) == {i \in DOMAIN sends : ~sends[i].ok}

(* C1: at most one sweep is in progress at any time, and a trigger that    *)
(* arrives while a sweep is in progress is dropped and changes nothing: no *)
(* fetch, no notification, no write to feeds or dedup records, no purge,   *)
(* the guard of the running sweep stays set, and no sweep is queued.       *)
C1_SingleSweep ==
    /\ [](in_progress <= 1 /\ (is_running <=> in_progress = 1))
    /\ [][(~dropped /\ dropped') =>
            /\ is_running /\ is_running'
            /\ UNCHANGED <<pc, feeds, sent_items, attempts, in_progress,
                           sweep_locals, feed_locals, entry_locals, last_return,
                           last_item, faults, now>>]_vars

C1_Witness == dropped /\ pc = "send" /\ in_progress = 1 /\ is_running

(* C2: with the fetch/parse pipeline of the program, an active feed and    *)
(* the global plain rule "release", a fetched entry titled "New Release    *)
(* v2" with link u1 and no dedup record gets one notification per          *)
(* recipient tagged #release and exactly one dedup record for (feed, u1).  *)
C2_EndToEnd ==
    ( /\ fetcher = "RSSParser"
      /\ keywords = KW_global
      /\ faults = 0
      /\ last_item # NoItem
      /\ last_item.entry.title = T_release
      /\ item_link(last_item.entry) = "u1"
      /\ ~last_item.existed )
    => /\ Len(last_item.sends) = Len(admin_user_ids)
       /\ \A i \in DOMAIN last_item.sends :
            /\ last_item.sends[i].to = admin_user_ids[i]
            /\ \E j \in DOMAIN last_item.sends[i].msg.tags :
                 last_item.sends[i].msg.tags[j] = hashtag(S_release)
       /\ Cardinality(Records(sent_items, last_item.feed_id, "u1")) = 1

(* C3: when check_entry finds a dedup record for the fingerprint of the    *)
(* item, it sends nothing, evaluates no rule and adds no record: a send or *)
(* a mark is only ever under way for an item without a record, and an item *)
(* that had a record when it was checked ends with no label, no send and   *)
(* still one record.                                                       *)
C3_NoRedelivery ==
    /\ pc \in {"send", "mark"} =>
         ~HasRecord(sent_items, sweep_feeds[fi].id, entry_url(entries[ei]))
    /\ (last_item # NoItem /\ last_item.existed) =>
         /\ last_item.labels = <<>>
         /\ last_item.sends = <<>>
         /\ Cardinality(Records(sent_items, last_item.feed_id,
                                item_link(last_item.entry))) = 1

C3_Witness ==
    /\ last_item # NoItem
    /\ last_item.existed
    /\ admin_user_ids # <<>>
    /\ matched_labels(last_item.entry, rules_of(last_item.feed_id)) # <<>>

(* C4: in check_entry an item with a non-empty URL, no dedup record and a  *)
(* matching active rule is sent to every recipient first and marked sent   *)
(* afterwards, whatever the sends did and also when there is no recipient. *)
C4_MarkAfterAttempt ==
    /\ pc = "send" =>
         /\ Len(attempts) = ai - 1
         /\ Records(sent_items, sweep_feeds[fi].id, entry_url(entries[ei])) = {}
    /\ pc = "mark" => Len(attempts) = Len(admin_user_ids)
    /\ ( /\ last_item # NoItem
         /\ faults = 0
         /\ entry_url(last_item.entry) # ""
         /\ ~last_item.existed
         /\ matched_labels(last_item.entry, rules_of(last_item.feed_id)) # <<>> )
       => /\ Len(last_item.sends) = Len(admin_user_ids)
          /\ HasRecord(sent_items, last_item.feed_id, entry_url(last_item.entry))

C4_Witness ==
    /\ last_item # NoItem
    /\ Len(last_item.sends) = 2
    /\ Failed(last_item.sends) = {1, 2}
    /\ HasRecord(sent_items, last_item.feed_id, entry_url(last_item.entry))

(* C5: after any sequence of mark_sent and purge calls the dedup table     *)
(* holds at most one record per fingerprint and per (feed id, url), and    *)
(* after a mark_sent call exactly one for the pair it was called with.     *)
C5_OneRecordPerFingerprint ==
    /\ \A r1, r2 \in sent_items : r1.item_hash = r2.item_hash => r1 = r2
    /\ \A feed_id \in FeedIds, url \in Urls :
         Cardinality(Records(sent_items, feed_id, url)) <= 1
    /\ last_call.op = "mark_sent" =>
         Cardinality(Records(sent_items, last_call.feed_id, last_call.url)) = 1

C5_Witness ==
    /\ last_call.op = "mark_sent"
    /\ last_call.raised
    /\ \E r \in Records(sent_items, last_call.feed_id, last_call.url) :
         r.sent_at < now

(* C6: from errorCount 0 and active, k failed checks in a row leave        *)
(* errorCount k, the feed stays active up to k = 9 and is disabled at the  *)
(* 10th; errorCount >= 10 implies not active in every state.               *)
C6_AutoDisable ==
    /\ faults = 0 =>
         \A id \in FeedIds :
            /\ feeds[id].error_count = streak[id]
            /\ feeds[id].is_active = (streak[id] < ErrorThreshold)
    /\ \A id \in FeedIds :
         feeds[id].error_count >= ErrorThreshold => ~feeds[id].is_active

C6_Witness ==
    /\ streak[1] = ErrorThreshold /\ ~feeds[1].is_active
    /\ streak[2] = ErrorThreshold - 1 /\ feeds[2].is_active

(* C7: when check_feed returns after a check whose fetch succeeded, the    *)
(* errorCount of the feed is 0.                                            *)
C7_SuccessResets ==
    last_return.fetched => feeds[last_return.id].error_count = 0

(* C8: no operation of the engine on the feeds table turns the active flag *)
(* of a feed from false to true; the success update that resets errorCount *)
(* leaves a disabled feed disabled.                                        *)
C8_DisableOneWay ==
    [][\A id \in FeedIds : ~feeds[id].is_active => ~feeds'[id].is_active]_vars

C8_Witness ==
    /\ last_call.op = "update_feed"
    /\ ~feeds[last_call.feed_id].is_active
    /\ feeds[last_call.feed_id].error_count = 0

(* C9: whichever store operation of a feed's check fails, the sweep goes   *)
(* on: it reaches its end only after every feed of its list was checked.   *)
C9_SweepContinues ==
    pc = "finally" => fi > Len(sweep_feeds)

(* C10: a failure while matching or notifying one item stays in that item: *)
(* with a store that does not fail, check_feed never enters its exception  *)
(* handler, every entry of a successful fetch is checked before check_feed *)
(* returns, and the errorCount of the feed is still 0 when it returns.     *)
C10_ItemFailuresIsolated ==
    faults = 0 =>
        /\ pc # "except"
        /\ last_return.fetched =>
             /\ last_return.outcome = "success"
             /\ last_return.done = last_return.total
             /\ feeds[last_return.id].error_count = 0

C10_Witness ==
    /\ faults = 0
    /\ pc = "entry"
    /\ ei = 2
    /\ last_item.index = 1
    /\ Failed(last_item.sends) # {}
    /\ \E i \in DOMAIN all_keywords :
         /\ all_keywords[i].is_active
         /\ match_body(last_item.entry.title, last_item.entry.summary,
                       all_keywords[i]) = "re.error"


(* C11: for a matched item one send is attempted to every configured       *)
(* recipient, in the configured order, whatever the earlier sends did; a   *)
(* failed send does not fail the check: the item is marked sent, and the   *)
(* errorCount of the feed stays 0.                                         *)
C11_RecipientIsolation ==
    /\ pc = "send" =>
         /\ ai \in 1..Len(admin_user_ids)
         /\ \A i \in 1..Len(attempts) : attempts[i].to = admin_user_ids[i]
    /\ (faults = 0 /\ last_item # NoItem /\ last_item.labels # <<>>) =>
         /\ Len(last_item.sends) = Len(admin_user_ids)
         /\ \A i \in 1..Len(last_item.sends) :
              last_item.sends[i].to = admin_user_ids[i]
         /\ HasRecord(sent_items, last_item.feed_id, entry_url(last_item.entry))
         /\ feeds[last_item.feed_id].error_count = 0

C11_Witness ==
    /\ faults = 0
    /\ last_item # NoItem
    /\ Len(last_item.sends) = 2
    /\ Failed(last_item.sends) = {1}
    /\ HasRecord(sent_items, last_item.feed_id, entry_url(last_item.entry))
    /\ pc = "entry"


(* C12: the step in which check_feed returns after a failed fetch adds     *)
(* exactly 1 to the errorCount of the feed and leaves its title,           *)
(* description and lastFetchAt, every other feed, the dedup records and    *)
(* the item ghosts unchanged: no item was evaluated, nothing was sent.     *)
C12_FetchFailureFrame ==
    [][(last_return' # last_return /\ last_return'.outcome = "failed") =>
         LET id == last_return'.id IN
         /\ pc = "fetch"
         /\ feeds'[id].error_count = feeds[id].error_count + 1
         /\ feeds'[id].title = feeds[id].title
         /\ feeds'[id].description = feeds[id].description
         /\ feeds'[id].last_fetch = feeds[id].last_fetch
         /\ \A other \in FeedIds \ {id} : feeds'[other] = feeds[other]
         /\ last_return'.done = 0
         /\ attempts = <<>> /\ attempts' = <<>>
         /\ UNCHANGED <<sent_items, last_item>>]_vars

C12_Witness ==
    /\ last_return.outcome = "failed"
    /\ feeds[last_return.id].error_count = 1
    /\ feeds[last_return.id].title = "News"
    /\ feeds[last_return.id].last_fetch = 0


(* The rules that apply to a feed: the global ones and its own.            *)
Applicable(feed_id) ==
    {i \in DOMAIN keywords : keywords[i].feed_id \in {NoFeed, feed_id}}

(* C13: a feed without applicable rule is never fetched and its check      *)
(* returns "skipped" in one step that leaves the feeds table and the dedup *)
(* records unchanged; a check is skipped only for such a feed.             *)
C13_SkippedFrame ==
    /\ [](pc \in {"fetch", "entry", "send", "mark"} =>
            Applicable(sweep_feeds[fi].id) # {})
    /\ []((last_return.id # NoFeed /\ faults = 0) =>
            (last_return.outcome = "skipped" <=> Applicable(last_return.id) = {}))
    /\ [][(last_return' # last_return /\ last_return'.outcome = "skipped") =>
            /\ pc = "feed"
            /\ pc' # "fetch"
            /\ UNCHANGED <<feeds, sent_items, attempts>>]_vars

C13_Witness ==
    /\ last_return.outcome = "skipped"
    /\ last_return.id = 2
    /\ feeds[2] = NewFeed(2)
    /\ feeds[1].error_count > 0


FeedRecords(tbl, feed_id) == {r \in tbl : r.feed_id = feed_id}

(* C14: a sweep checks only feeds that were active when it started: every  *)
(* row of its list is active, the feed being fetched or whose items are    *)
(* checked is active, and while a feed is disabled no step changes its row *)
(* or adds a dedup record for it.                                          *)
C14_OnlyActiveFeeds ==
    /\ [](\A i \in DOMAIN sweep_feeds : sweep_feeds[i].is_active)
    /\ [](pc \in {"fetch", "entry", "send", "mark"} =>
            feeds[sweep_feeds[fi].id].is_active)
    /\ [][\A id \in FeedIds : ~feeds[id].is_active =>
            /\ feeds'[id] = feeds[id]
            /\ FeedRecords(sent_items', id) \subseteq FeedRecords(sent_items, id)]_vars

C14_Witness ==
    /\ ~feeds[1].is_active
    /\ pc = "fetch"
    /\ Len(sweep_feeds) = 1
    /\ sweep_feeds[1].id = 2


(* C15: handling the "check now" command of a permitted user leads to a    *)
(* call of check_all_feeds: when the handler has answered, a sweep is in   *)
(* progress, the one it started or the one that was running.               *)
C15_CheckNowStartsSweep ==
    [][(/\ last_call' # last_call
        /\ last_call'.op = "cmd_check"
        /\ Len(last_call'.replies) = 2) => is_running']_vars


Labels(item) == {item.labels[i] : i \in DOMAIN item.labels}

(* C17: a regex rule whose pattern does not compile yields no match and    *)
(* no exception: its label is not collected, every later active rule that  *)
(* matches the item is still collected and the item is notified and        *)
(* marked, and the errorCount of the feed stays 0.                         *)
C17_BadRegexIsNonMatch ==
    (/\ faults = 0
     /\ last_item # NoItem
     /\ entry_url(last_item.entry) # ""
     /\ ~last_item.existed) =>
        LET rs == rules_of(last_item.feed_id)
            title == last_item.entry.title
            summary == last_item.entry.summary
        IN \A i \in DOMAIN rs :
            (/\ rs[i].is_active
             /\ rs[i].keyword_type = "regex"
             /\ re_search(rs[i].keyword, LowerStr(title \o <<" ">> \o summary))
                    = "re.error") =>
               /\ rs[i].keyword \notin Labels(last_item)
               /\ feeds[last_item.feed_id].error_count = 0
               /\ \A j \in DOMAIN rs :
                    (j > i /\ rs[j].is_active
                       /\ match_body(title, summary, rs[j]) = "True") =>
                        /\ rs[j].keyword \in Labels(last_item)
                        /\ Len(last_item.sends) = Len(admin_user_ids)
                        /\ HasRecord(sent_items, last_item.feed_id,
                                     entry_url(last_item.entry))

C17_Witness ==
    /\ faults = 0
    /\ last_item # NoItem
    /\ rules_of(last_item.feed_id)[1].keyword = S_badre
    /\ rules_of(last_item.feed_id)[1].is_active
    /\ last_item.labels = <<S_release>>
    /\ Len(last_item.sends) = 2


(* C18: the labels collected for an item that is evaluated are the labels  *)
(* of exactly the active rules among the global rules followed by the      *)
(* feed's own that match it, in that order: an inactive rule contributes   *)
(* nothing and a match does not end the evaluation.                        *)
C18_AllMatchingActiveRules ==
    (/\ faults = 0
     /\ last_item # NoItem
     /\ entry_url(last_item.entry) # ""
     /\ ~last_item.existed) =>
        LET rs == rules_of(last_item.feed_id)
            hits == {i \in DOMAIN rs :
                        /\ rs[i].is_active
                        /\ match_body(last_item.entry.title,
                                      last_item.entry.summary, rs[i]) = "True"}
            order == SortedSeq(hits)
        IN /\ last_item.labels = [k \in 1..Len(order) |-> rs[order[k]].keyword]
           /\ \A i \in DOMAIN rs \ hits : rs[i].is_active \/
                  rs[i].keyword \notin Labels(last_item)
           /\ \A i, j \in DOMAIN keywords :
                (keywords[i].feed_id = NoFeed /\ keywords[j].feed_id = last_item.feed_id
                 /\ keywords[i].keyword \in Labels(last_item)
                 /\ keywords[j].keyword \in Labels(last_item)) =>
                   \E a, b \in DOMAIN last_item.labels :
                      /\ a < b
                      /\ last_item.labels[a] = keywords[i].keyword
                      /\ last_item.labels[b] = keywords[j].keyword

C18_Witness ==
    /\ keywords = KW_multi
    /\ last_item # NoItem
    /\ last_item.labels = <<S_release, S_new>>
    /\ HasRecord(sent_items, last_item.feed_id, entry_url(last_item.entry))


(* C19: the pattern stored for a new rule is the raw input without the     *)
(* prefix "regex:", or without the one character "+" or "|", and the raw   *)
(* input itself for the kinds not and plain.                               *)
C19_StoredPattern ==
    last_call.op = "add_keyword" =>
        LET raw == last_call.raw
            stored == keywords[Len(keywords)].keyword
        IN stored = IF StartsWith(raw, P_regex) THEN Drop(raw, Len(P_regex))
                    ELSE IF StartsWith(raw, <<"+">>) \/ StartsWith(raw, <<"|">>)
                    THEN Drop(raw, 1)
                    ELSE raw


(* The kind of a raw input, by the order of the derivation.                *)
Kind(raw) ==
    CASE StartsWith(raw, P_regex) -> "regex"
      [] ~StartsWith(raw, P_regex) /\ StartsWith(raw, <<"+">>) -> "and"
      [] ~StartsWith(raw, P_regex) /\ StartsWith(raw, <<"|">>) -> "or"
      [] OTHER -> IF Contains(<<" ", "-">>, raw) THEN "not" ELSE "normal"

Matched == last_call.op = "_match_keyword"

TextOf(call) == LowerStr(call.title \o <<" ">> \o call.summary)

In(part, call) == Contains(LowerStr(Strip(part)), TextOf(call))

(* C21: a not rule matches iff its main part is contained in the text and  *)
(* its exclude part is not; when the split at space-hyphen does not give   *)
(* exactly two non-empty parts, the result is the plain substring match of *)
(* the whole pattern.                                                      *)
C21_NotRule ==
    Matched /\ last_call.keyword.keyword_type = "not" =>
        LET parts == Split(last_call.keyword.keyword, <<" ", "-">>)
            two == /\ Len(parts) = 2
                   /\ Strip(parts[1]) # <<>>
                   /\ Strip(parts[2]) # <<>>
        IN last_call.result =
             Bool(IF two
                  THEN In(parts[1], last_call) /\ ~In(parts[2], last_call)
                  ELSE Contains(LowerStr(last_call.keyword.keyword),
                                TextOf(last_call)))


(* C22: an and rule matches iff every part of its pattern between "+",     *)
(* trimmed, is a substring of the lowercased title, space, summary; an or  *)
(* rule matches iff at least one part between "|", trimmed, is.            *)
C22_AndOrRules ==
    Matched =>
        LET kw == last_call.keyword
            plus == Split(kw.keyword, <<"+">>)
            bars == Split(kw.keyword, <<"|">>)
        IN /\ kw.keyword_type = "and" =>
                (last_call.result = "True" <=>
                    \A i \in 1..Len(plus) : In(plus[i], last_call))
           /\ kw.keyword_type = "or" =>
                (last_call.result = "True" <=>
                    \E i \in 1..Len(bars) : In(bars[i], last_call))
           /\ kw.keyword_type \in {"and", "or"} =>
                last_call.result \in {"True", "False"}

C22_Witness ==
    /\ Matched
    /\ last_call.keyword.keyword_type = "and"
    /\ last_call.keyword.keyword = <<"A", " ", "+", " ", "B">>
    /\ last_call.title = <<"A">>
    /\ last_call.summary = <<"B">>
    /\ last_call.result = "True"

Upper(c) ==
    IF \E i \in 1..Len(LowerCase) : LowerCase[i] = c
    THEN UpperCase[CHOOSE i \in 1..Len(LowerCase) : LowerCase[i] = c]
    ELSE c

UpperStr(s) == [i \in 1..Len(s) |-> Upper(s[i])]

(* The same text in other letter case.                                     *)
Recased(s) == {s, UpperStr(s), LowerStr(s)}

(* C23: for every kind of rule the result is the same for the title and    *)
(* the summary in any letter case, and for the kinds that search           *)
(* substrings also for the pattern in any letter case.                     *)
C23_CaseInsensitive ==
    Matched =>
        LET kw == last_call.keyword IN
        /\ \A t \in Recased(last_call.title), s \in Recased(last_call.summary) :
              _match_keyword(t, s, kw) = last_call.result
        /\ kw.keyword_type # "regex" =>
              \A p \in Recased(kw.keyword), t \in Recased(last_call.title) :
                  _match_keyword(t, last_call.summary, [kw EXCEPT !.keyword = p])
                      = last_call.result

C23_Witness ==
    /\ Matched
    /\ last_call.keyword.keyword_type = "and"
    /\ last_call.keyword.keyword = <<"a", "+", "b">>
    /\ last_call.title = <<"A", " ", "B">>
    /\ last_call.summary = <<>>
    /\ last_call.result = "True"

(* C27: a not rule whose pattern holds more than one space-hyphen has as   *)
(* main the text before the first one and as exclude everything after it,  *)
(* and matches iff main is contained and that exclude is not.              *)
C27_FirstSplitOnly ==
    Matched /\ last_call.keyword.keyword_type = "not" =>
        LET p == last_call.keyword.keyword
            parts == Split(p, <<" ", "-">>)
            main == parts[1]
            exclude == Drop(p, Len(main) + 2)
        IN Len(parts) > 2 =>
             last_call.result = Bool(In(main, last_call) /\ ~In(exclude, last_call))


Alnum(c) ==
    \/ \E i \in 1..Len(LowerCase) : c \in {LowerCase[i], UpperCase[i]}
    \/ c \in {"0", "1", "2", "3", "4", "5", "6", "7", "8", "9"}

(* C24: the message carries one hashtag for each of the first 5 matched    *)
(* labels at most, and a hashtag is "#" followed by the label with every   *)
(* character that is not alphanumeric replaced.                            *)
C24_Hashtags ==
    \A a \in 1..Len(attempts) :
        LET tags == attempts[a].msg.tags IN
        /\ Len(tags) = Min(MaxTags, Len(matched_keywords))
        /\ \A i \in 1..Len(tags) :
              LET label == matched_keywords[i] IN
              /\ Len(tags[i]) = Len(label) + 1
              /\ tags[i][1] = "#"
              /\ \A j \in 1..Len(label) :
                    tags[i][j + 1] = IF Alnum(label[j]) THEN label[j] ELSE "_"


(* C25: an item that matches no active applicable rule is not notified and *)
(* gets no dedup record; an item without a record is evaluated in every    *)
(* sweep that fetches it, against the rules the store holds when the sweep *)
(* and the check of its feed start, and is notified if one matches.        *)
C25_UnmatchedRechecked ==
    /\ [](last_item.entry # NoEntry /\ last_item.labels = <<>> /\ ~last_item.existed =>
            /\ last_item.sends = <<>>
            /\ Records(sent_items, last_item.feed_id, item_link(last_item.entry)) = {})
    /\ [][pc = "entry" /\ entry_url(entries[ei]) # ""
            /\ ~HasRecord(sent_items, sweep_feeds[fi].id, entry_url(entries[ei])) =>
            LET labels == matched_labels(entries[ei], all_keywords) IN
            IF labels = <<>>
            THEN /\ pc' \notin {"send", "mark"}
                 /\ sent_items' = sent_items
                 /\ attempts' = <<>>
                 /\ last_item'.labels = <<>>
            ELSE /\ pc' \in {"send", "mark"}
                 /\ matched_keywords' = labels]_vars
    /\ [][pc = "idle" /\ pc' # "idle" =>
            global_keywords' = get_global_keywords(keywords)]_vars
    /\ [][pc = "feed" /\ pc' = "fetch" =>
            all_keywords' = global_keywords \o
                            get_feed_keywords(keywords, sweep_feeds[fi].id)]_vars

C25_Witness ==
    /\ last_call.op = "add_keyword"
    /\ last_call.raw = S_release
    /\ last_call.seen.feed_id = 1
    /\ entry_url(last_call.seen.entry) # ""
    /\ last_call.seen.labels = <<>>
    /\ ~last_call.seen.existed
    /\ last_item.feed_id = 1
    /\ last_item.entry = last_call.seen.entry
    /\ last_item.labels = <<S_release>>
    /\ last_item.sends # <<>>
    /\ HasRecord(sent_items, 1, entry_url(last_item.entry))


CheckPcs == {"feed", "fetch", "except", "entry", "send", "mark"}

(* C26: while the check of a feed is under way, a step writes no feed row  *)
(* but that feed's and adds or removes no dedup record but that feed's;    *)
(* outside a check no feed row is written.                                 *)
C26_WritesPartitioned ==
    /\ [][(pc \in CheckPcs) =>
            LET F == sweep_feeds[fi].id IN
            ( /\ \A g \in FeedIds \ {F} :
                   /\ feeds'[g] = feeds[g]
                   /\ FeedRecords(sent_items', g) = FeedRecords(sent_items, g)
              /\ \A r \in sent_items' \ sent_items :
                   r.feed_id = F /\ r.item_hash = item_hash(F, r.url) )]_vars
    /\ [][(pc \notin CheckPcs) => feeds' = feeds]_vars

C26_Witness ==
    /\ last_return.id = 2
    /\ last_return.outcome = "error"
    /\ feeds[2].error_count = 1
    /\ feeds[1].error_count = 0
    /\ FeedRecords(sent_items, 1) # {}
    /\ FeedRecords(sent_items, 2) # {}

(* C28: the fingerprint check_entry looks up is the one mark_sent stores   *)
(* for the same feed and URL, so an item is skipped exactly when a record  *)
(* of its own feed and URL exists; fingerprints of one URL under two feeds *)
(* differ, and a record of one feed never makes the other feed's item be   *)
(* skipped.                                                                *)
C28_DedupPerFeed ==
    /\ [](\A r \in sent_items : r.item_hash = fingerprint(r.feed_id, r.url))
    /\ [](\A r, q \in sent_items :
            r.item_hash = q.item_hash => r.feed_id = q.feed_id /\ r.url = q.url)
    /\ [][pc = "entry" /\ entry_url(entries[ei]) # "" /\ pc' # "except" =>
            LET F == sweep_feeds[fi].id
                u == entry_url(entries[ei])
            IN IF HasRecord(sent_items, F, u)
               THEN /\ pc' \notin {"send", "mark"}
                    /\ last_item'.existed
                    /\ last_item'.labels = <<>>
               ELSE matched_labels(entries[ei], all_keywords) # <<>> =>
                        pc' \in {"send", "mark"}]_vars

C28_Witness ==
    /\ last_item.feed_id = 2
    /\ ~last_item.existed
    /\ last_item.labels # <<>>
    /\ entry_url(last_item.entry) = "u1"
    /\ HasRecord(sent_items, 1, "u1")
    /\ HasRecord(sent_items, 2, "u1")
    /\ Cardinality({r.item_hash : r \in sent_items}) = 2


(* C29: a sweep that has started ends and clears is_running, however its   *)
(* body ends; is_running is true exactly while a sweep is under way, so a  *)
(* call of check_all_feeds made while none is under way starts one.        *)
C29_GuardReleased ==
    /\ [](is_running <=> pc # "idle")
    /\ [](in_progress = IF is_running THEN 1 ELSE 0)
    /\ (is_running ~> ~is_running)
    /\ [][(pc = "idle" /\ pc' # "idle") =>
            is_running' /\ in_progress' = 1 /\ ~dropped']_vars
    /\ [][(pc = "idle") => ~dropped']_vars

C29_Witness ==
    /\ pc = "idle"
    /\ ~is_running
    /\ faults = 1
    /\ last_return.outcome = "swept"
    /\ \A id \in FeedIds : feeds[id] = NewFeed(id)

=============================================================================
